---- MODULE Spec2Model ----
(***************************************************************************)
(* A model of chatgpt-term: the conversation session (src/src/api.rs) and  *)
(* the terminal event loop that drives it (src/src/app.rs).                *)
(*                                                                         *)
(* Two specifications share the definitions of the session:                *)
(*   SessionSpec  the public operations of ChatGPTSession, called in any   *)
(*                order by a client of the library, with any max_tokens;   *)
(*   Spec         the program: run() of app.rs, which loads chatlog.json,  *)
(*                fixes max_tokens to 2000 and loops over input events.    *)
(*                                                                         *)
(* Text is a sequence of one-character strings.  A u32 is a pair           *)
(* <<hi, lo>> of 16-bit halves, value hi * 2^16 + lo, so that the 32-bit   *)
(* width is kept exactly.                                                  *)
(***************************************************************************)
EXTENDS Integers, Sequences, FiniteSets, TLC

VARIABLES
    overflow_checks, \* build profile: TRUE = arithmetic overflow panics, FALSE = it wraps
    name,            \* ChatGPTSession.name
    chatlog,         \* ChatGPTSession.chatlog
    max_tokens,      \* ChatGPTSession.max_tokens
    window,          \* send_message's `messages`, as handed to send_request
    request,         \* send_request's `request.messages`, as posted
    in_flight,       \* number of HTTP requests posted and not yet answered
    returned,        \* how the last session operation ended for its caller
    disk,            \* the files the program has written, by path
    pc,              \* where the caller is
    textarea,        \* ChatEntryBox.textarea: the input line
    input_block,     \* ChatEntryBox.textarea's block: title and style
    error_message,   \* ChatTermApp.error_message
    status_line,     \* the footer drawn by the last render
    message_area,    \* ChatTermApp.message_area: the display buffer
    term_size        \* the terminal's size in cells

session_vars == <<overflow_checks, name, chatlog, max_tokens>>
call_vars    == <<window, request, in_flight, returned>>
ui_vars      == <<textarea, input_block, error_message, status_line, message_area,
                 term_size>>
vars == <<overflow_checks, name, chatlog, max_tokens, window, request, in_flight,
          returned, disk, pc, textarea, input_block, error_message, status_line,
          message_area, term_size>>

----------------------------------------------------------------------------
(* Bounds of the model *)

\* sends are enabled while the transcript holds fewer entries than this
MaxLog == 3

\* the longest text, in characters, of the first message of a conversation
MaxText == 4

----------------------------------------------------------------------------
(* u32 arithmetic *)

Half == 2 ^ 16

\* a small number as a u32
N(n) == <<n \div Half, n % Half>>

MaxU32 == <<Half - 1, Half - 1>>

\* the mathematical sum; its hi part is not reduced
Sum(a, b) == <<a[1] + b[1] + ((a[2] + b[2]) \div Half), (a[2] + b[2]) % Half>>

\* a + b does not fit in 32 bits
Overflows(a, b) == Sum(a, b)[1] >= Half

\* u32 addition where overflow checks are off
WrappingAdd(a, b) == <<Sum(a, b)[1] % Half, Sum(a, b)[2]>>

Gt(a, b) == a[1] > b[1] \/ (a[1] = b[1] /\ a[2] > b[2])

Leq(a, b) == ~Gt(a, b)

\* `x as u32` of an i64 held as <<hi, lo>> with any integer hi
AsU32(x) == <<x[1] % Half, x[2]>>

----------------------------------------------------------------------------
(* Text *)

IsSpace(c) == c \in {" ", "\n"}

RECURSIVE TrimStart(_)
TrimStart(s) == IF s # <<>> /\ IsSpace(s[1]) THEN TrimStart(Tail(s)) ELSE s

RECURSIVE TrimEnd(_)
TrimEnd(s) ==
    IF s # <<>> /\ IsSpace(s[Len(s)]) THEN TrimEnd(SubSeq(s, 1, Len(s) - 1)) ELSE s

\* str::trim
Trim(s) == TrimEnd(TrimStart(s))

\* content.split(' ').count(): one more than the number of spaces
SplitCount(s) == Cardinality({i \in 1..Len(s) : s[i] = " "}) + 1

\* the system preamble of send_request, abbreviated to two characters; like the
\* original it holds a line break
initial_prompt == <<"Y", "\n">>

StartsWith(s, pat) == Len(s) >= Len(pat) /\ SubSeq(s, 1, Len(pat)) = pat

\* str::replace(pat, ""): every non-overlapping match, left to right, is dropped
RECURSIVE Replace(_, _)
Replace(s, pat) ==
    IF s = <<>> THEN <<>>
    ELSE IF StartsWith(s, pat) THEN Replace(SubSeq(s, Len(pat) + 1, Len(s)), pat)
    ELSE <<s[1]>> \o Replace(Tail(s), pat)

\* ChatEntryBox::input on Enter: the trimmed line
EnteredMessage(line) == Trim(line)

----------------------------------------------------------------------------
(* Values *)

ChatLogEntry(message, response, mt, rt) ==
    [message |-> message, response |-> response,
     num_tokens_message |-> mt, num_tokens_response |-> rt]

Message(content, role) == [content |-> content, role |-> role]

\* how an operation of the session ends: nothing was called yet, it returned
\* Ok(ChatLogEntry), it returned Err(error), it returned a value without an entry
\* ("reset", "loaded", "saved"), or it panicked
NoResult == [kind |-> "none", entry |-> <<>>, error |-> <<>>]
Ok(entry) == [kind |-> "ok", entry |-> <<entry>>, error |-> <<>>]
Err(error) == [kind |-> "err", entry |-> <<>>, error |-> error]
Done(op, value) == [kind |-> op, entry |-> <<>>, error |-> value]
Panicked(message) == [kind |-> "panic", entry |-> <<>>, error |-> message]

Lit_unwrap == <<"u", "n", "w", "r", "a", "p">>
Lit_overflow == <<"o", "v", "e", "r", "f", "l", "o", "w">>

\* format!("{:?}", err) of the io::Error that send_request builds from the
\* service's error message
Lit_Custom == <<"C","u","s","t","o","m"," ","{"," ","k","i","n","d",":"," ","O","t","h","e","r",",",
                " ","e","r","r","o","r",":"," ","\"">>
Lit_CustomEnd == <<"\""," ","}">>
DebugFmt(error) == Lit_Custom \o error \o Lit_CustomEnd

----------------------------------------------------------------------------
(* Files: a JSON document is an array of objects, garbage, or no file at all *)

JString(s) == [type |-> "string", str |-> s, num |-> <<0, 0>>]
JNumber(n) == [type |-> "number", str |-> <<>>, num |-> n]

NoFile == [kind |-> "absent", items |-> <<>>]
Garbage == [kind |-> "garbage", items |-> <<>>]
JArray(items) == [kind |-> "array", items |-> items]

\* the characters of a JSON string between its quotes: serde_json writes a
\* quote, a backslash and a line break as escapes
RECURSIVE Escape(_)
Escape(s) ==
    IF s = <<>> THEN <<>>
    ELSE (IF s[1] = "\"" THEN <<"\\", "\"">>
          ELSE IF s[1] = "\\" THEN <<"\\", "\\">>
          ELSE IF s[1] = "\n" THEN <<"\\", "n">>
          ELSE <<s[1]>>) \o Escape(Tail(s))

\* mutant: the characters between the quotes are taken as they are
Unescape_Raw(s) == s

\* serde_json reads the escapes back
RECURSIVE Unescape(_)
Unescape(s) ==
    IF s = <<>> THEN <<>>
    ELSE IF s[1] = "\\" /\ Len(s) >= 2
    THEN <<IF s[2] = "n" THEN "\n" ELSE s[2]>> \o Unescape(SubSeq(s, 3, Len(s)))
    ELSE <<s[1]>> \o Unescape(Tail(s))

\* #[derive(Serialize)] of ChatLogEntry
EntryToJson(e) ==
    [message |-> JString(Escape(e.message)), response |-> JString(Escape(e.response)),
     num_tokens_message |-> JNumber(e.num_tokens_message),
     num_tokens_response |-> JNumber(e.num_tokens_response)]

\* serde_json::to_string_pretty(&self.chatlog)
ToStringPretty(log) == JArray([i \in 1..Len(log) |-> EntryToJson(log[i])])

IsU32(j) == j.type = "number" /\ j.num[1] >= 0 /\ j.num[1] < Half

\* #[derive(Deserialize)] of ChatLogEntry accepts this object
EntryParses(o) ==
    /\ o.message.type = "string"
    /\ o.response.type = "string"
    /\ IsU32(o.num_tokens_message)
    /\ IsU32(o.num_tokens_response)

EntryFromJson(o) ==
    ChatLogEntry(Unescape(o.message.str), Unescape(o.response.str),
                 o.num_tokens_message.num, o.num_tokens_response.num)

Lit_io == <<"i", "o">>
Lit_json == <<"j", "s", "o", "n">>

\* the entries of an array up to the first one that does not parse
RECURSIVE ParsedPrefix(_)
ParsedPrefix(items) ==
    IF items = <<>> \/ ~EntryParses(items[1]) THEN <<>>
    ELSE <<EntryFromJson(items[1])>> \o ParsedPrefix(Tail(items))

\* mutant: an array is loaded up to its first malformed entry
ReadLog_Partial(doc) ==
    IF doc.kind = "absent" THEN [ok |-> FALSE, entries |-> <<>>, error |-> Lit_io]
    ELSE IF doc.kind = "array"
    THEN [ok |-> TRUE, entries |-> ParsedPrefix(doc.items), error |-> <<>>]
    ELSE [ok |-> FALSE, entries |-> <<>>, error |-> Lit_json]

\* serde_json::from_str::<Vec<ChatLogEntry>>(&std::fs::read_to_string(path)?)?
\* gives the entries, or the first error on the way
ReadLog(doc) ==
    IF doc.kind = "absent" THEN [ok |-> FALSE, entries |-> <<>>, error |-> Lit_io]
    ELSE IF doc.kind = "array" /\ \A i \in 1..Len(doc.items) : EntryParses(doc.items[i])
    THEN [ok |-> TRUE,
          entries |-> [i \in 1..Len(doc.items) |-> EntryFromJson(doc.items[i])],
          error |-> <<>>]
    ELSE [ok |-> FALSE, entries |-> <<>>, error |-> Lit_json]

\* the name generate_session_name gives: "chatlog_" and the time of the call
Names == {"chatlog_t0"}

\* format!("{}.json", self.name)
SavePath(n) == <<n, ".json">>

\* run()'s "chatlog.json"
LogPath == <<"chatlog", ".json">>

SavePaths == {SavePath(n) : n \in Names}

Paths == {LogPath} \cup SavePaths

----------------------------------------------------------------------------
(* Sample inputs *)

EntryAB == ChatLogEntry(<<"a">>, <<"b">>, N(5), N(5))
EntryCD == ChatLogEntry(<<"c">>, <<"d", "\"">>, N(2), N(1))
EntryBig == ChatLogEntry(<<"e">>, <<"f">>, N(1), MaxU32)

\* what chatlog.json may hold when the program starts
LogFiles ==
    { NoFile, Garbage,
      JArray(<<>>),
      ToStringPretty(<<EntryAB>>),
      ToStringPretty(<<EntryCD, EntryAB>>),
      ToStringPretty(<<EntryBig, EntryAB>>),
      JArray(<<EntryToJson(EntryAB),
               [EntryToJson(EntryAB) EXCEPT !.num_tokens_message = JNumber(<<Half, 0>>)]>>) }

\* the max_tokens a client of the library may choose
Budgets == {N(0), N(8), N(13), N(2000)}

\* the texts a client of the library sends: one word that quotes the preamble
\* inside itself, and three plain words
ApiTexts == {<<"Y">> \o initial_prompt \o <<"\n">>, <<"a", " ", "a", " ", "a">>}

\* the keys that reach the input line editor
Chars == {"a", " "}

\* the input lines the user types: " a " and every line on the way to it
TypedLines == {SubSeq(<<" ", "a", " ">>, 1, n) : n \in 0..3}

\* the terminals the program runs in
TermSizes == {[cols |-> 80, rows |-> 9]}

\* the service's answers
Replies == {<<"r">>}
Usages == {<<N(5), N(5)>>}
ErrorTexts == {<<>>, <<"q">>}

\* the response of the chat-completions endpoint to one POST
Responses ==
    {[kind |-> k, error |-> <<>>, answer |-> <<>>, usage |-> <<N(0), N(0)>>] :
        k \in {"network_error", "undecodable"}}
    \cup {[kind |-> "error_object", error |-> e, answer |-> <<>>, usage |-> <<N(0), N(0)>>] :
        e \in ErrorTexts}
    \cup {[kind |-> "completion", error |-> <<>>, answer |-> a, usage |-> u] :
        a \in Replies, u \in Usages}

----------------------------------------------------------------------------
(* ChatGPTSession::send_message: the request window *)

\* `tokens + num_tokens` panics in a build with overflow checks
AddPanics(tokens, num_tokens, checks) == checks /\ Overflows(tokens, num_tokens)

\* u32 subtraction where overflow checks are off
WrappingSub(a, b) ==
    LET lo == a[2] - b[2]
        borrow == IF lo < 0 THEN 1 ELSE 0
    IN  <<(a[1] - b[1] - borrow) % Half, lo % Half>>

\* mutant: the test rewritten as `tokens > max_tokens - num_tokens`
OverBudget_Subtracting(tokens, num_tokens, max) == Gt(tokens, WrappingSub(max, num_tokens))

\* mutant: `>=` for `>`
OverBudget_Inclusive(tokens, num_tokens, max) ==
    ~Gt(max, WrappingAdd(tokens, num_tokens))

\* `tokens + num_tokens > self.max_tokens`
OverBudget(tokens, num_tokens, max) == Gt(WrappingAdd(tokens, num_tokens), max)

\* mutant: `continue` for `break`, an item over the budget is skipped and the scan
\* goes on with the older ones
RECURSIVE ScanChatlog_Skipping(_, _, _, _, _, _)
ScanChatlog_Skipping(log, i, num_tokens, messages, max, checks) ==
    IF i = 0 THEN [panic |-> FALSE, messages |-> messages]
    ELSE
    LET entry == log[i]
        resp_fits == ~Gt(WrappingAdd(entry.num_tokens_response, num_tokens), max)
        with_resp == IF resp_fits
                     THEN <<Message(entry.response, "assistant")>> \o messages
                     ELSE messages
        after_resp == IF resp_fits THEN WrappingAdd(num_tokens, entry.num_tokens_response)
                      ELSE num_tokens
        msg_fits == ~Gt(WrappingAdd(entry.num_tokens_message, after_resp), max)
        with_msg == IF msg_fits THEN <<Message(entry.message, "user")>> \o with_resp
                    ELSE with_resp
        after_msg == IF msg_fits THEN WrappingAdd(after_resp, entry.num_tokens_message)
                     ELSE after_resp
    IN  ScanChatlog_Skipping(log, i - 1, after_msg, with_msg, max, checks)

\* mutant: an entry is taken whole or not at all, its two counts tested together
RECURSIVE ScanChatlog_WholeEntries(_, _, _, _, _, _)
ScanChatlog_WholeEntries(log, i, num_tokens, messages, max, checks) ==
    IF i = 0 THEN [panic |-> FALSE, messages |-> messages]
    ELSE
    LET entry == log[i]
        both == WrappingAdd(entry.num_tokens_response, entry.num_tokens_message)
        with_both == <<Message(entry.message, "user"), Message(entry.response, "assistant")>>
                     \o messages
    IN  IF Gt(WrappingAdd(both, num_tokens), max)
        THEN [panic |-> FALSE, messages |-> messages]
        ELSE ScanChatlog_WholeEntries(log, i - 1, WrappingAdd(num_tokens, both), with_both,
                                      max, checks)

\* the body of `for entry in self.chatlog.iter().rev()` from entry i down to the
\* first one: the messages pushed to the front, or a panic
RECURSIVE ScanChatlog(_, _, _, _, _, _)
ScanChatlog(log, i, num_tokens, messages, max, checks) ==
    IF i = 0 THEN [panic |-> FALSE, messages |-> messages]
    ELSE
    LET entry == log[i]
        resp_tokens == entry.num_tokens_response
        message_tokens == entry.num_tokens_message
        with_resp == <<Message(entry.response, "assistant")>> \o messages
        after_resp == WrappingAdd(num_tokens, resp_tokens)
        with_msg == <<Message(entry.message, "user")>> \o with_resp
        after_msg == WrappingAdd(after_resp, message_tokens)
    IN  IF AddPanics(resp_tokens, num_tokens, checks)
        THEN [panic |-> TRUE, messages |-> messages]
        ELSE IF OverBudget(resp_tokens, num_tokens, max)
        THEN [panic |-> FALSE, messages |-> messages]
        ELSE IF AddPanics(message_tokens, after_resp, checks)
        THEN [panic |-> TRUE, messages |-> with_resp]
        ELSE IF OverBudget(message_tokens, after_resp, max)
        THEN [panic |-> FALSE, messages |-> with_resp]
        ELSE ScanChatlog(log, i - 1, after_msg, with_msg, max, checks)

\* the token count that seeds the scan
SeedTokens(text) == N(SplitCount(text))

\* mutant: push_front for the push_back of the new message
BuildWindow_NewFirst(log, text, max, checks) ==
    LET message == Message(text, "user")
        scan == ScanChatlog(log, Len(log), SeedTokens(text), <<>>, max, checks)
    IN  [panic |-> scan.panic, messages |-> <<message>> \o scan.messages]

\* lines 98-121: the window, the new message last
BuildWindow(log, text, max, checks) ==
    LET message == Message(text, "user")
        scan == ScanChatlog(log, Len(log), SeedTokens(text), <<>>, max, checks)
    IN  [panic |-> scan.panic, messages |-> Append(scan.messages, message)]

----------------------------------------------------------------------------
(* ChatGPTClient::send_request *)

\* messages[0].content = format!("{}{}", initial_prompt, messages[0].content)
PrefixFirst(messages) ==
    [messages EXCEPT ![1] = Message(initial_prompt \o messages[1].content, messages[1].role)]

\* .send().unwrap() and .json().unwrap()
ResponsePanics(resp) == resp.kind \in {"network_error", "undecodable"}

\* the ChatLogEntry built from the posted request and the service's response
EntryOfResponse(req, resp) ==
    ChatLogEntry(Replace(req[Len(req)].content, initial_prompt), resp.answer,
                 AsU32(resp.usage[1]), AsU32(resp.usage[2]))

\* what send_request returns when it returns
RequestResult(req, resp) ==
    IF resp.kind = "error_object" THEN Err(resp.error)
    ELSE Ok(EntryOfResponse(req, resp))

\* mutant: the new entry is put first
ChatlogAfter_Front(log, result) ==
    IF result.kind = "ok" THEN <<result.entry[1]>> \o log ELSE log

\* self.chatlog.push(response.clone()) after `?`
ChatlogAfter(log, result) ==
    IF result.kind = "ok" THEN Append(log, result.entry[1]) ELSE log

----------------------------------------------------------------------------
(* The widgets of the controller, as ChatTermApp::new leaves them *)

Lit_Input == <<"I", "n", "p", "u", "t">>

\* ChatEntryBox::default: Block titled "Input"
PlainBlock == [title |-> Lit_Input, red |-> FALSE]

\* TextArea::default: one empty line, the cursor on it, nothing scrolled
EmptyArea == [lines |-> <<<<>>>>, row |-> 0, col |-> 0, top |-> 0]

HelpFooter == [kind |-> "help", text |-> <<>>]

----------------------------------------------------------------------------
(* The session's operations, as a client of the library calls them *)

\* ChatGPTClient::new_session(max_tokens) = ChatGPTSession::new
SessionInit ==
    /\ overflow_checks \in BOOLEAN
    /\ name \in Names
    /\ chatlog = <<>>
    /\ max_tokens \in Budgets
    /\ window = <<>>
    /\ request = <<>>
    /\ in_flight = 0
    /\ returned = NoResult
    /\ disk = [p \in SavePaths |-> NoFile]
    /\ pc = "idle"
    /\ textarea = <<>>
    /\ input_block = PlainBlock
    /\ error_message = <<>>
    /\ status_line = HelpFooter
    /\ message_area = EmptyArea
    /\ term_size \in TermSizes

\* what a read of the file at `path` may find: what the program wrote there, or,
\* for a file it never wrote, whatever the user keeps there
FileAt(path) == IF path \in DOMAIN disk THEN {disk[path]} ELSE LogFiles

\* with_log_file(self, path): the session is consumed; the caller gets it back
\* with the file's entries, or gets the error and no session
WithLogFile(path, doc) ==
    /\ pc = "idle"
    /\ doc \in FileAt(path)
    /\ LET r == ReadLog(doc)
       IN  IF r.ok
           THEN /\ chatlog' = r.entries
                /\ returned' = Done("loaded", <<>>)
                /\ pc' = "idle"
           ELSE /\ chatlog' = chatlog
                /\ returned' = Err(r.error)
                /\ pc' = "dropped"
    /\ UNCHANGED <<overflow_checks, name, max_tokens, window, request, in_flight, disk>>
    /\ UNCHANGED ui_vars

\* mutant: the name is renewed and the chatlog is kept
Reset_KeepsLog ==
    /\ pc = "idle"
    /\ chatlog' = chatlog
    /\ name' \in Names
    /\ returned' = Done("reset", <<>>)
    /\ UNCHANGED <<overflow_checks, max_tokens, window, request, in_flight, disk, pc>>
    /\ UNCHANGED ui_vars

\* reset(&mut self)
Reset ==
    /\ pc = "idle"
    /\ chatlog' = <<>>
    /\ name' \in Names
    /\ returned' = Done("reset", <<>>)
    /\ UNCHANGED <<overflow_checks, max_tokens, window, request, in_flight, disk, pc>>
    /\ UNCHANGED ui_vars

\* save_chatlog_to_path(&self, path) with the file system accepting the write or not
WriteLog(path, written) ==
    IF written THEN disk' = [disk EXCEPT ![path] = ToStringPretty(chatlog)]
    ELSE disk' = disk

\* save_chatlog(&self): the file name, or the I/O error
SaveResult(written) ==
    IF written THEN Done("saved", SavePath(name)) ELSE Err(Lit_io)

SaveChatlog(written) ==
    /\ pc = "idle"
    /\ WriteLog(SavePath(name), written)
    /\ returned' = SaveResult(written)
    /\ UNCHANGED <<overflow_checks, name, chatlog, max_tokens, window, request, in_flight, pc>>
    /\ UNCHANGED ui_vars

\* mutant: the request is posted and the caller does not wait for the answer
PostWindow_NotBlocking(text) ==
    LET w == BuildWindow(chatlog, text, max_tokens, overflow_checks)
    IN  IF w.panic
        THEN /\ pc' = "panicked"
             /\ returned' = Panicked(Lit_overflow)
             /\ UNCHANGED <<window, request, in_flight>>
        ELSE /\ pc' = pc
             /\ returned' = returned
             /\ window' = w.messages
             /\ request' = PrefixFirst(w.messages)
             /\ in_flight' = in_flight + 1

\* send_message up to the POST of send_request: the window is built, prefixed
\* and posted, and the caller blocks; or the scan panics
PostWindow(text) ==
    LET w == BuildWindow(chatlog, text, max_tokens, overflow_checks)
    IN  IF w.panic
        THEN /\ pc' = "panicked"
             /\ returned' = Panicked(Lit_overflow)
             /\ UNCHANGED <<window, request, in_flight>>
        ELSE /\ pc' = "awaiting"
             /\ returned' = returned
             /\ window' = w.messages
             /\ request' = PrefixFirst(w.messages)
             /\ in_flight' = in_flight + 1

SendMessage(text) ==
    /\ pc = "idle"
    /\ Len(chatlog) < MaxLog
    /\ PostWindow(text)
    /\ UNCHANGED <<overflow_checks, name, chatlog, max_tokens, disk>>
    /\ UNCHANGED ui_vars

\* the rest of send_request and of send_message, once the service has answered
SendMessageReturns(resp) ==
    /\ pc = "awaiting"
    /\ in_flight' = in_flight - 1
    /\ window' = <<>>
    /\ request' = <<>>
    /\ IF ResponsePanics(resp)
       THEN /\ pc' = "panicked"
            /\ returned' = Panicked(<<Lit_unwrap, resp.kind>>)
            /\ UNCHANGED chatlog
       ELSE /\ pc' = "idle"
            /\ returned' = RequestResult(request, resp)
            /\ chatlog' = ChatlogAfter(chatlog, RequestResult(request, resp))
    /\ UNCHANGED <<overflow_checks, name, max_tokens, disk>>
    /\ UNCHANGED ui_vars

SessionNext ==
    \/ \E path \in Paths, doc \in LogFiles \cup {disk[p] : p \in SavePaths} :
            WithLogFile(path, doc)
    \/ Reset
    \/ \E written \in BOOLEAN : SaveChatlog(written)
    \/ \E text \in ApiTexts : SendMessage(text)
    \/ \E resp \in Responses : SendMessageReturns(resp)

SessionSpec == SessionInit /\ [][SessionNext]_vars

----------------------------------------------------------------------------
(* The first message of a conversation, with any text the controller can send *)

\* the messages run() passes to send_message: lines of the keys in Chars, trimmed
\* and not empty
Texts ==
    {t \in UNION {[1..n -> Chars] : n \in 1..MaxText} : EnteredMessage(t) = t}

\* send_message(text) on a session whose transcript is empty
SendFirst(text) ==
    /\ chatlog = <<>>
    /\ SendMessage(text)

SeedNext ==
    \/ \E text \in Texts : SendFirst(text)
    \/ \E resp \in Responses : SendMessageReturns(resp)

SeedSpec == SessionInit /\ [][SeedNext]_vars

----------------------------------------------------------------------------
(* The display buffer: a TextArea of lines with a cursor and a scroll position *)

Min(a, b) == IF a < b THEN a ELSE b
Max(a, b) == IF a > b THEN a ELSE b

Lit_You == <<"Y", "o", "u", ":", " ">>
Lit_Bot == <<"B", "o", "t", ":", " ">>
Lit_Indent == <<" ", " ", " ", " ", " ">>

\* TextArea::insert_str of a text without line breaks, at the cursor
InsertStr(area, str) ==
    LET line == area.lines[area.row + 1]
        new == SubSeq(line, 1, area.col) \o str \o SubSeq(line, area.col + 1, Len(line))
    IN  [area EXCEPT !.lines[area.row + 1] = new, !.col = area.col + Len(str)]

\* TextArea::insert_newline: the cursor's line is split at the cursor
InsertNewline(area) ==
    LET line == area.lines[area.row + 1]
        head == SubSeq(line, 1, area.col)
        rest == SubSeq(line, area.col + 1, Len(line))
    IN  [area EXCEPT
            !.lines = SubSeq(area.lines, 1, area.row) \o <<head, rest>>
                      \o SubSeq(area.lines, area.row + 2, Len(area.lines)),
            !.row = area.row + 1,
            !.col = 0]

\* textwrap::wrap for a line that fits the width; a longer one is cut at the width
RECURSIVE Wrap(_, _)
Wrap(line, width) ==
    IF Len(line) <= width \/ width = 0 THEN <<line>>
    ELSE <<SubSeq(line, 1, width)>> \o Wrap(SubSeq(line, width + 1, Len(line)), width)

\* the loop of add_line_wrapped from the ctr-th wrapped line on
RECURSIVE InsertWrapped(_, _, _)
InsertWrapped(area, wrapped, ctr) ==
    IF ctr > Len(wrapped) THEN area
    ELSE LET indented == IF ctr > 1 THEN InsertStr(area, Lit_Indent) ELSE area
         IN  InsertWrapped(InsertNewline(InsertStr(indented, wrapped[ctr])), wrapped, ctr + 1)

AddLineWrapped(area, line, width) ==
    LET wrap_width == IF width > 6 THEN width - 5 ELSE width
    IN  InsertWrapped(area, Wrap(line, wrap_width), 1)

AddChatlogEntry(area, entry, width) ==
    AddLineWrapped(AddLineWrapped(area, Lit_You \o entry.message, width),
                   Lit_Bot \o entry.response, width)

\* the loop of create_message_area_from_session over the first n entries
RECURSIVE AreaOfEntries(_, _)
AreaOfEntries(log, n) ==
    IF n = 0 THEN EmptyArea
    ELSE AddChatlogEntry(AreaOfEntries(log, n - 1), log[n], 80)

CreateMessageArea(log) == AreaOfEntries(log, Len(log))

\* rows of the display region inside its border: the terminal's rows less the
\* input box (3), the status line (1), the footer (1) and the border (2)
ViewRows(size) == Max(size.rows - 7, 0)

\* the width run() wraps a new entry to
EntryWidth(size) == size.cols - 4

\* message_area.input(MouseScrollDown / MouseScrollUp): the viewport moves by
\* delta rows and the cursor is moved into it
Scroll(area, delta, size) ==
    LET top == IF delta >= 0 THEN Min(area.top + delta, Half - 1)
               ELSE Max(area.top + delta, 0)
        bottom == Max(top, top + ViewRows(size) - 1)
        row == Min(Min(Max(area.row, top), bottom), Len(area.lines) - 1)
        col == Min(area.col, Len(area.lines[row + 1]))
    IN  [area EXCEPT !.top = top, !.row = row, !.col = col]

\* the widget's render: the viewport follows the cursor
Rendered(area, size) ==
    LET height == ViewRows(size)
        top == IF area.row < area.top THEN area.row
               ELSE IF area.top + height <= area.row THEN area.row + 1 - height
               ELSE area.top
    IN  [area EXCEPT !.top = top]

----------------------------------------------------------------------------
(* The controller: run() and ChatTermApp::update_ui *)

Lit_InputColon == <<"I", "n", "p", "u", "t", ":", " ">>
Lit_Error == <<"E", "r", "r", "o", "r", ":", " ">>
Lit_Saved == <<"S", "a", "v", "e", "d", " ", "s", "e", "s", "s", "i", "o", "n", " ", "t", "o", " ">>

\* ChatEntryBox::set_error(Some(err))
ErrorBlock(err) == [title |-> Lit_InputColon \o err, red |-> TRUE]

\* the footer update_ui draws: error_message.take(), or the help
Footer(message) ==
    IF message # <<>> THEN [kind |-> "message", text |-> message[1]] ELSE HelpFooter

\* update_ui's terminal.draw with the controller's new state; it then blocks in
\* crossterm::event::read
Draw(area, message) ==
    /\ message_area' = Rendered(area, term_size)
    /\ status_line' = Footer(message)
    /\ error_message' = <<>>
    /\ term_size' = term_size

\* the state run() is entered in: client.new_session(2000)
Init ==
    /\ overflow_checks \in BOOLEAN
    /\ name \in Names
    /\ chatlog = <<>>
    /\ max_tokens = N(2000)
    /\ window = <<>>
    /\ request = <<>>
    /\ in_flight = 0
    /\ returned = NoResult
    /\ disk = [p \in SavePaths |-> NoFile]
    /\ pc = "start"
    /\ textarea = <<>>
    /\ input_block = PlainBlock
    /\ error_message = <<>>
    /\ status_line = HelpFooter
    /\ message_area = EmptyArea
    /\ term_size \in TermSizes

\* lines 267-270 and the first draw: the log file is read; an error ends run()
LoadAndOpen(doc) ==
    /\ pc = "start"
    /\ doc \in FileAt(LogPath)
    /\ LET r == ReadLog(doc)
       IN  IF r.ok
           THEN /\ chatlog' = r.entries
                /\ returned' = Done("loaded", <<>>)
                /\ pc' = "input"
                /\ Draw(CreateMessageArea(r.entries), <<>>)
           ELSE /\ chatlog' = chatlog
                /\ returned' = Err(r.error)
                /\ pc' = "load_failed"
                /\ UNCHANGED <<message_area, status_line, error_message, term_size>>
    /\ UNCHANGED <<overflow_checks, name, max_tokens, window, request, in_flight, disk,
                   textarea, input_block>>

\* mutant: UiEvent::Quit does not break the loop
KeyEsc_KeepsReading ==
    /\ pc = "input"
    /\ pc' = "input"
    /\ textarea' = <<>>
    /\ input_block' = PlainBlock
    /\ message_area' = EmptyArea
    /\ status_line' = HelpFooter
    /\ UNCHANGED <<session_vars, call_vars, disk, error_message, term_size>>

\* Esc: UiEvent::Quit breaks the loop, run() returns Ok and the app is dropped
\* with its widgets
KeyEsc ==
    /\ pc = "input"
    /\ pc' = "quit"
    /\ textarea' = <<>>
    /\ input_block' = PlainBlock
    /\ message_area' = EmptyArea
    /\ status_line' = HelpFooter
    /\ UNCHANGED <<session_vars, call_vars, disk, error_message, term_size>>

\* mutant: a failed save is reported with set_error, as a failed send is
KeyCtrlS_ErrorInBox(written) ==
    /\ pc = "input"
    /\ WriteLog(SavePath(name), written)
    /\ returned' = SaveResult(written)
    /\ input_block' = IF written THEN input_block ELSE ErrorBlock(Lit_Error \o Lit_io)
    /\ Draw(message_area, IF written THEN <<Lit_Saved \o SavePath(name)>> ELSE <<>>)
    /\ UNCHANGED <<session_vars, window, request, in_flight, pc, textarea>>

\* Ctrl+S: UiEvent::SaveSession
KeyCtrlS(written) ==
    /\ pc = "input"
    /\ WriteLog(SavePath(name), written)
    /\ returned' = SaveResult(written)
    /\ Draw(message_area,
            IF written THEN <<Lit_Saved \o SavePath(name)>> ELSE <<Lit_Error \o Lit_io>>)
    /\ UNCHANGED <<session_vars, window, request, in_flight, pc, textarea, input_block>>

\* the mouse wheel: the event goes to the display buffer
MouseScroll(delta) ==
    /\ pc = "input"
    /\ Draw(Scroll(message_area, delta, term_size), <<>>)
    /\ UNCHANGED <<session_vars, call_vars, disk, pc, textarea, input_block>>

\* Ctrl+M is swallowed; an event that is no key of the editor changes nothing
KeyIgnored ==
    /\ pc = "input"
    /\ Draw(message_area, <<>>)
    /\ UNCHANGED <<session_vars, call_vars, disk, pc, textarea, input_block>>

\* a character key: self.textarea.input(input)
KeyChar(c) ==
    /\ pc = "input"
    /\ Append(textarea, c) \in TypedLines
    /\ textarea' = Append(textarea, c)
    /\ Draw(message_area, <<>>)
    /\ UNCHANGED <<session_vars, call_vars, disk, pc, input_block>>

\* Backspace in the editor
KeyBackspace ==
    /\ pc = "input"
    /\ textarea # <<>>
    /\ textarea' = SubSeq(textarea, 1, Len(textarea) - 1)
    /\ Draw(message_area, <<>>)
    /\ UNCHANGED <<session_vars, call_vars, disk, pc, input_block>>

\* update_ui: an empty message is no event
IsSendEvent(message_str) == message_str # <<>>

\* Enter: the line is taken and cleared; a non-empty message is sent, and the loop
\* blocks in send_message until the service answers
KeyEnter ==
    /\ pc = "input"
    /\ textarea' = <<>>
    /\ IF IsSendEvent(EnteredMessage(textarea))
       THEN /\ Len(chatlog) < MaxLog
            /\ PostWindow(EnteredMessage(textarea))
            /\ UNCHANGED <<message_area, status_line, error_message, term_size>>
       ELSE /\ Draw(message_area, <<>>)
            /\ UNCHANGED <<call_vars, pc>>
    /\ UNCHANGED <<session_vars, disk, input_block>>

\* the match on send_message's result in run()
AreaAfter(area, result, size) ==
    IF result.kind = "ok" THEN AddChatlogEntry(area, result.entry[1], EntryWidth(size))
    ELSE area

\* mutant: the error is dropped
BlockAfter_Forgets(block, result) == block

BlockAfter(block, result) ==
    IF result.kind = "err" THEN ErrorBlock(Lit_Error \o DebugFmt(result.error))
    ELSE block

\* the service answers: send_message returns to run(), which shows the entry or
\* the error and draws; or send_request panics
ReplyArrives(resp) ==
    /\ pc = "awaiting"
    /\ in_flight' = in_flight - 1
    /\ window' = <<>>
    /\ request' = <<>>
    /\ IF ResponsePanics(resp)
       THEN /\ pc' = "panicked"
            /\ returned' = Panicked(<<Lit_unwrap, resp.kind>>)
            /\ UNCHANGED <<chatlog, input_block, message_area, status_line,
                           error_message, term_size>>
       ELSE LET result == RequestResult(request, resp)
            IN  /\ pc' = "input"
                /\ returned' = result
                /\ chatlog' = ChatlogAfter(chatlog, result)
                /\ input_block' = BlockAfter(input_block, result)
                /\ Draw(AreaAfter(message_area, result, term_size), <<>>)
    /\ UNCHANGED <<overflow_checks, name, max_tokens, disk, textarea>>

Next ==
    \/ \E doc \in LogFiles : LoadAndOpen(doc)
    \/ KeyEsc
    \/ \E written \in BOOLEAN : KeyCtrlS(written)
    \/ \E delta \in {-1, 1} : MouseScroll(delta)
    \/ KeyIgnored
    \/ \E c \in Chars : KeyChar(c)
    \/ KeyBackspace
    \/ KeyEnter
    \/ \E resp \in Responses : ReplyArrives(resp)

Spec == Init /\ [][Next]_vars

----------------------------------------------------------------------------
(* What the claims speak of *)

\* the history part of a window: all but the new message
History(w) == SubSeq(w, 1, Len(w) - 1)

\* the new message of a window
NewMessage(w) == w[Len(w)]

\* the transcript as the messages it stands for, oldest first, each with the
\* token count stored for it
RECURSIVE Flat(_)
Flat(log) ==
    IF log = <<>> THEN <<>>
    ELSE Flat(SubSeq(log, 1, Len(log) - 1))
         \o <<[message |-> Message(log[Len(log)].message, "user"),
               tokens |-> log[Len(log)].num_tokens_message],
              [message |-> Message(log[Len(log)].response, "assistant"),
               tokens |-> log[Len(log)].num_tokens_response]>>

FlatMessages(log) == [i \in 1..Len(Flat(log)) |-> Flat(log)[i].message]

IsSuffix(s, t) == Len(s) <= Len(t) /\ SubSeq(t, Len(t) - Len(s) + 1, Len(t)) = s

IsPrefix(s, t) == Len(s) <= Len(t) /\ SubSeq(t, 1, Len(s)) = s

\* the exact sum of the token counts of the last k messages of the transcript
RECURSIVE StoredTokens(_, _)
StoredTokens(flat, k) ==
    IF k = 0 THEN N(0)
    ELSE Sum(StoredTokens(flat, k - 1), flat[Len(flat) - k + 1].tokens)

\* the exact token cost of a window over the transcript
WindowCost(w, log) ==
    Sum(SeedTokens(NewMessage(w).content), StoredTokens(Flat(log), Len(w) - 1))

\* a send has built its window and posted it
Posted == pc = "awaiting"

----------------------------------------------------------------------------
(* The claims *)

\* C1: for every send whose window holds at least one history message, the
\* local token cost of the new message plus the stored token counts of the
\* history messages in the window is at most the token budget.
C1_WindowWithinBudget ==
    (Posted /\ Len(window) > 1) => Leq(WindowCost(window, chatlog), max_tokens)

\* C2: whatever the transcript and the budget, the window a send hands to the
\* transport is not empty and its last item is the new user message, role user.
C2_NewMessageLast ==
    [][\A text \in ApiTexts :
          (SendMessage(text) /\ Posted')
              => (window' # <<>> /\ NewMessage(window') = Message(text, "user")
                  /\ Len(request') = Len(window')
                  /\ NewMessage(request').role = "user")]_vars

C2_Witness ==
    /\ Posted
    /\ chatlog # <<>>
    /\ max_tokens = N(0)
    /\ window = <<Message(<<"a", " ", "a", " ", "a">>, "user")>>

\* C3: the history part of the window, oldest first, is a suffix of the
\* flattened transcript prompt_1, reply_1, ..., prompt_n, reply_n with roles
\* user and assistant: nothing is skipped, and an entry is in part only as the
\* oldest one, reply without prompt.
C3_HistoryIsSuffix ==
    Posted => IsSuffix(History(window), FlatMessages(chatlog))

C3_Witness ==
    /\ Posted
    /\ Len(chatlog) = 2
    /\ Len(window) = 4
    /\ window[1].role = "assistant"

\* C4: for a fixed transcript and new message, a window built with a budget
\* holds every history message of the window built with a smaller budget
\* (the budget of the send is compared with every other budget, smaller or
\* larger, under which the scan ends without a panic).
C4_MonotonicInBudget ==
    Posted =>
        \A b \in Budgets :
            LET other == BuildWindow(chatlog, NewMessage(window).content, b,
                                     overflow_checks)
            IN  ~other.panic =>
                    /\ Leq(max_tokens, b)
                        => IsSuffix(History(window), History(other.messages))
                    /\ Leq(b, max_tokens)
                        => IsSuffix(History(other.messages), History(window))

C4_Witness ==
    /\ Posted
    /\ max_tokens = N(8)
    /\ Len(window) = 2
    /\ Len(BuildWindow(chatlog, NewMessage(window).content, N(13),
                       overflow_checks).messages) = 4

C6_TransportFailureRecoverable ==
    [][\A resp \in Responses :
          (ReplyArrives(resp) /\ resp.kind # "completion")
              => (pc' = "input" /\ returned'.kind = "err")]_vars

\* C7: a successful send appends one entry at the end of the transcript, made
\* of the prompt text sent, the reply text and the two token counts the
\* service reported, and leaves the entries before it as they were; sends and
\* saves only ever append to the transcript.
C7_AppendOnly ==
    [][/\ \A resp \in Responses :
            (SendMessageReturns(resp) /\ resp.kind = "completion")
                => chatlog' = Append(chatlog,
                        ChatLogEntry(Replace(NewMessage(request).content, initial_prompt),
                                     resp.answer, resp.usage[1], resp.usage[2]))
       /\ (\/ \E text \in ApiTexts : SendMessage(text)
           \/ \E resp \in Responses : SendMessageReturns(resp)
           \/ \E written \in BOOLEAN : SaveChatlog(written))
              => /\ IsPrefix(chatlog, chatlog')
                 /\ Len(chatlog') <= Len(chatlog) + 1]_vars

C7_Witness ==
    /\ pc = "idle"
    /\ returned.kind = "ok"
    /\ Len(chatlog) = 2
    /\ chatlog[2] = returned.entry[1]
    /\ chatlog[1] # chatlog[2]

\* C8: the send that follows reset() builds a window of one message, the new
\* user message, whatever the transcript held before.
C8_ResetThenSend ==
    [][\A text \in ApiTexts :
          (returned.kind = "reset" /\ SendMessage(text))
              => (Posted' /\ window' = <<Message(text, "user")>>)]_vars

C8_Witness ==
    /\ Posted
    /\ returned.kind = "reset"
    /\ \E p \in SavePaths : disk[p].kind = "array" /\ Len(disk[p].items) = 2
    /\ Len(window) = 1

\* C9: with the transcript [a (5 tokens), b (5 tokens)], a budget of 8 and a new
\* message of 3 tokens, the window is [assistant: b, user: the new message].
C9_Scenario ==
    (/\ Posted
     /\ chatlog = <<EntryAB>>
     /\ max_tokens = N(8)
     /\ SeedTokens(NewMessage(window).content) = N(3))
        => window = <<Message(<<"b">>, "assistant"),
                      Message(<<"a", " ", "a", " ", "a">>, "user")>>

C9_Witness ==
    /\ Posted
    /\ chatlog = <<EntryAB>>
    /\ max_tokens = N(8)
    /\ window = <<Message(<<"b">>, "assistant"),
                  Message(<<"a", " ", "a", " ", "a">>, "user")>>

\* C10: the event loop has at most one send in flight: while one is, the only
\* step is the arrival of its answer, no input event is read or acted on, and
\* the next send starts after it.
C10_OneSendInFlight ==
    [][/\ in_flight' <= 1
       /\ in_flight > 0
            => /\ \E resp \in Responses : ReplyArrives(resp)
               /\ in_flight' = 0
               /\ textarea' = textarea
               /\ disk' = disk
               /\ pc' # "quit"]_vars

C10_Witness ==
    /\ pc = "awaiting"
    /\ in_flight = 1
    /\ returned.kind \in {"ok", "err"}

\* a key of the keyboard is read and handled, and the loop renders and reads again
KeyHandled ==
    \/ \E c \in Chars : KeyChar(c)
    \/ KeyBackspace
    \/ KeyIgnored
    \/ \E written \in BOOLEAN : KeyCtrlS(written)
    \/ (KeyEnter /\ pc' = "input")

\* C11: once a failed send has attached an error to the input box, the render
\* that follows the next key shows the input box with its plain title "Input"
\* and without the error.
C11_ErrorClearedByKey ==
    [][(input_block.red /\ KeyHandled) => input_block' = PlainBlock]_vars

\* Enter is pressed on a line that is empty once trimmed
EmptyEnter == KeyEnter /\ ~IsSendEvent(EnteredMessage(textarea))

\* C12: Enter on an input line that is empty or holds only white space is a
\* no-op: no send is issued, and the input line, the transcript, the display
\* buffer and the error state are what they were.
C12_EmptyEnterNoOp ==
    [][EmptyEnter => /\ in_flight' = 0
                     /\ pc' = "input"
                     /\ textarea' = textarea
                     /\ chatlog' = chatlog
                     /\ message_area' = message_area
                     /\ input_block' = input_block
                     /\ error_message' = error_message]_vars

\* Enter is pressed on a line that is not empty once trimmed
SendingEnter == KeyEnter /\ IsSendEvent(EnteredMessage(textarea))

\* the lines of the display buffer `after` are those of `before` followed by the
\* You:/Bot: pair of `entry` (the buffer ends with the empty line the cursor is on)
EntryAppended(before, after, entry) ==
    after.lines = SubSeq(before.lines, 1, Len(before.lines) - 1)
                  \o <<Lit_You \o entry.message, Lit_Bot \o entry.response, <<>>>>

\* C13: Enter on a line that is not empty once trimmed clears the input line
\* and calls send once with the trimmed text; when the send ends the controller
\* is back at reading input, with the new entry appended to the display buffer
\* or with an error attached to the input box.
C13_EnterSendsOnce ==
    [][/\ SendingEnter
            => /\ textarea' = <<>>
               /\ Posted'
               /\ in_flight' = 1
               /\ NewMessage(window') = Message(Trim(textarea), "user")
       /\ \A resp \in Responses :
            ReplyArrives(resp)
                => /\ pc' = "input"
                   /\ in_flight' = 0
                   /\ \/ /\ returned'.kind = "ok"
                         /\ EntryAppended(message_area, message_area', returned'.entry[1])
                      \/ /\ returned'.kind = "err"
                         /\ input_block'.red
                         /\ message_area' = message_area]_vars

\* C14: a save followed at once by a load of the file it wrote gives back the
\* transcript that was saved: the same entries in the same order, each with
\* its message, response and two token counts.
C14_SaveLoadRoundTrip ==
    [][\A path \in SavePaths :
          (/\ returned.kind = "saved"
           /\ returned.error = path
           /\ WithLogFile(path, disk[path]))
              => (returned'.kind = "loaded" /\ chatlog' = chatlog)]_vars

C14_Witness ==
    /\ returned.kind = "loaded"
    /\ Len(chatlog) = 3
    /\ chatlog[1] = EntryCD
    /\ \E path \in SavePaths : disk[path] = ToStringPretty(chatlog)

\* C15: Ctrl+S calls save and sets only the status line, to the name of the
\* file written or to the error; whether the save succeeds or fails the
\* transcript, the content of the display buffer, the input line and the input
\* box are what they were, and the loop goes on reading input.
C15_SaveOnlySetsStatus ==
    [][\A written \in BOOLEAN :
          (returned' = SaveResult(written) /\ KeyCtrlS(written))
              => /\ chatlog' = chatlog
                 /\ message_area' = message_area
                 /\ textarea' = textarea
                 /\ input_block' = input_block
                 /\ pc' = "input"
                 /\ in_flight' = 0
                 /\ status_line'.kind = "message"
                 /\ IF returned'.kind = "saved"
                    THEN /\ status_line'.text = Lit_Saved \o SavePath(name)
                         /\ disk'[SavePath(name)] = ToStringPretty(chatlog)
                    ELSE /\ StartsWith(status_line'.text, Lit_Error)
                         /\ disk' = disk]_vars

C15_Witness ==
    /\ pc = "input"
    /\ returned.kind = "err"
    /\ status_line.kind = "message"
    /\ StartsWith(status_line.text, Lit_Error)
    /\ ~input_block.red
    /\ Len(chatlog) = 2
    /\ textarea = <<" ", "a">>
    /\ message_area.lines = CreateMessageArea(chatlog).lines

\* `pat` occurs in `s`
Contains(s, pat) == \E i \in 1..(Len(s) - Len(pat) + 1) : SubSeq(s, i, i + Len(pat) - 1) = pat

\* C16: the message recorded by a successful send is the new user text, without
\* the preamble that was prefixed to the window's first message, whether that
\* was the new message or an older one; no entry of the transcript holds the
\* preamble, whatever the sends, saves and loads.
C16_PreambleStripped ==
    [][/\ \A resp \in Responses :
            (SendMessageReturns(resp) /\ resp.kind = "completion")
                => chatlog'[Len(chatlog')].message = NewMessage(window).content
       /\ \A i \in 1..Len(chatlog') : ~Contains(chatlog'[i].message, initial_prompt)]_vars

\* C17: Escape is handled in every state in which the loop reads input, and it
\* ends the loop: the transcript and the files are as they were, nothing is in
\* flight, and no step follows (no input is handled, no send, no save).
C17_EscapeEndsLoop ==
    [][/\ pc = "input" => ENABLED KeyEsc
       /\ KeyEsc => /\ pc' = "quit"
                    /\ chatlog' = chatlog
                    /\ disk' = disk
                    /\ in_flight' = 0
       /\ pc # "quit"]_vars

C17_Witness ==
    /\ pc = "quit"
    /\ returned = Err(<<"q">>)
    /\ Len(chatlog) = 2
    /\ in_flight = 0

\* the number of words of a text: the maximal runs of characters other than
\* white space
WordCount(s) ==
    Cardinality({i \in 1..Len(s) : ~IsSpace(s[i]) /\ (i = 1 \/ IsSpace(s[i - 1]))})

\* C18: the token count that seeds the scan is the number of words of the new
\* message, separated by white space, also where several spaces stand between
\* two words.
C18_SeedIsWordCount ==
    Posted => SeedTokens(NewMessage(window).content)
                  = N(WordCount(NewMessage(window).content))

\* a file that is missing, is no JSON array, or holds an entry that is no
\* ChatLogEntry
Malformed(doc) ==
    \/ doc.kind # "array"
    \/ \E i \in 1..Len(doc.items) : ~EntryParses(doc.items[i])

\* C19: the load of a malformed or unreadable chatlog.json returns an error to
\* run() before the event loop is entered: no session is made of the entries
\* that did parse, nothing is drawn, no input is read, and run() ends there.
C19_LoadFailureReported ==
    [][/\ \A doc \in LogFiles :
            (LoadAndOpen(doc) /\ Malformed(doc))
                => /\ returned'.kind = "err"
                   /\ returned'.error \in {Lit_io, Lit_json}
                   /\ pc' = "load_failed"
                   /\ chatlog' = <<>>
                   /\ message_area' = EmptyArea
                   /\ disk' = disk
       /\ pc # "load_failed"
       /\ pc' = "input" => returned'.kind # "err" \/ pc = "input" \/ pc = "awaiting"]_vars

C19_Witness ==
    /\ pc = "load_failed"
    /\ returned = Err(Lit_json)
    /\ chatlog = <<>>

\* the newest message of the transcript that the window leaves out
NewestExcluded(w, log) == Flat(log)[Len(Flat(log)) - (Len(w) - 1)]

\* C20: the scan stops only at an item that does not fit: when the window
\* leaves out some history, the stored count of the newest item left out plus
\* the cost of the window (new message and history in it, summed exactly) is
\* greater than the budget; an item that brings the cost to exactly the budget
\* is therefore in the window.
C20_WindowIsMaximal ==
    (Posted /\ Len(History(window)) < Len(Flat(chatlog)))
        => Gt(Sum(WindowCost(window, chatlog), NewestExcluded(window, chatlog).tokens),
              max_tokens)

C20_Witness ==
    /\ Posted
    /\ Len(chatlog) = 2
    /\ Len(window) = 2
    /\ WindowCost(window, chatlog) = max_tokens
    /\ NewestExcluded(window, chatlog).tokens = N(5)

\* the program with a transport whose call always returns: a posted request is
\* answered, by a completion, an error object, a body that is no JSON, or a
\* failure to send
Fairness == WF_vars(\E resp \in Responses : ReplyArrives(resp))

LiveSpec == Spec /\ Fairness

\* the send has ended with a new entry, last in the transcript and shown in the
\* display buffer
OutcomeEntry ==
    /\ returned.kind = "ok"
    /\ chatlog # <<>>
    /\ chatlog[Len(chatlog)] = returned.entry[1]
    /\ \E i \in 1..Len(message_area.lines) :
            message_area.lines[i] = Lit_You \o returned.entry[1].message

\* the send has ended with an error attached to the input box
OutcomeError ==
    /\ returned.kind = "err"
    /\ input_block.red

\* C21: with a transport that always returns, a submitted message leads to
\* one of two outcomes before the next input is read, never both: an entry
\* appended to the transcript and the display buffer, or an error on the input
\* box with the transcript and the display buffer as they were; the controller
\* does not stay in Awaiting Reply.
C21_SendEndsOneWay ==
    /\ Posted ~> (pc = "input" /\ (OutcomeEntry \/ OutcomeError))
    /\ [][\A resp \in Responses :
            ReplyArrives(resp)
                => \/ /\ OutcomeEntry'
                      /\ chatlog' = Append(chatlog, returned'.entry[1])
                      /\ input_block' = input_block
                   \/ /\ OutcomeError'
                      /\ chatlog' = chatlog
                      /\ message_area' = message_area]_vars

\* the display buffer `area` holds the You:/Bot: pair of every entry of the
\* transcript `log`, once each and in the transcript's order
OnePairPerEntry(area, log) == area.lines = CreateMessageArea(log).lines

\* C22: while the loop runs, the display buffer holds one You:/Bot: pair per
\* entry of the transcript, in the transcript's order, a new entry after all
\* earlier ones; a mouse scroll changes the scroll position of the display
\* buffer only: not the input line, not the transcript, not the lines of the
\* buffer and not the place where the next entry is inserted.
C22_DisplayFollowsTranscript ==
    [][/\ pc' \in {"input", "awaiting"} => OnePairPerEntry(message_area', chatlog')
       /\ \A delta \in {-1, 1} :
            MouseScroll(delta)
                => /\ textarea' = textarea
                   /\ chatlog' = chatlog
                   /\ message_area'.lines = message_area.lines
                   /\ message_area'.row = message_area.row
                   /\ message_area'.col = message_area.col]_vars

\* C23: the token arithmetic of the scan does not overflow 32 bits: whatever
\* u32 counts the transcript stores and whatever the budget, a send does not
\* abort in the scan, and every history message in its window was tested on
\* the exact sum, so that the new message and the history from that message
\* on cost at most the budget.
C23_NoOverflow ==
    [][\A text \in ApiTexts :
          SendMessage(text)
              => /\ pc' # "panicked"
                 /\ Posted'
                 /\ \A k \in 1..(Len(window') - 1) :
                        Leq(Sum(SeedTokens(text), StoredTokens(Flat(chatlog), k)),
                            max_tokens)]_vars

====
